---- MODULE Spec2Model ----
(***************************************************************************)
(* The Go engine of go_jax/board.py: GoBoard.reset and GoBoard.step, with  *)
(* the disjoint-set union (DSU) it uses to track groups of stones.         *)
(* The board is kept flattened, row-major: cell (i, j) is index i*n + j.   *)
(***************************************************************************)
EXTENDS Integers, Sequences, FiniteSets, TLC

\* The largest board_size a game is constructed with (the smallest is 2).
MaxBoardSize == 3
\* num_recent_positions: the number of snapshots in the history window.
K == 5
\* step is only called while count * board_size^2 is below this cap, so
\* that small boards are played to the move limit and beyond, and larger
\* boards to a smaller depth.
MaxWork == 38
\* step is called at most this many times on a game that is over.
MaxAfterDone == 1
MaxDSUSize == 4
MaxMerges == 3
\* twice the komi (komi = 0.5), so that scores stay integers.
KomiTimes2 == 1

EMPTY == 0
BLACK == 1
WHITE == 0 - 1

BoardSizes == 2 .. MaxBoardSize
NumCells(n) == n * n
Cells(n) == 0 .. (n * n - 1)
PASS(n) == n * n
\* the actions given to step: every cell, the pass, and one value out of
\* range on either side.
Actions(n) == (0 - 1) .. (n * n + 1)

VARIABLES board_size, board, recent_boards, prev_pass_move, turn, dsu, done,
          count, action, after_done, reward, is_invalid_action, game_score,
          any_invalid, merges, last_union

vars == <<board_size, board, recent_boards, prev_pass_move, turn, dsu, done,
          count, action, after_done, reward, is_invalid_action, game_score,
          any_invalid, merges, last_union>>

----------------------------------------------------------------------------
(* DSU: parent and size arrays over the flattened cells.                   *)

DSUInit(size) ==
    [parent |-> [c \in 0 .. (size - 1) |-> c],
     size |-> [c \in 0 .. (size - 1) |-> 1]]

RECURSIVE find_set(_, _)
find_set(parent, v) == IF parent[v] = v THEN v ELSE find_set(parent, parent[v])

\* union_sets that attaches the larger root under the smaller.
union_sets_bysmaller(s, a, b) ==
    LET ra == find_set(s.parent, a)
        rb == find_set(s.parent, b)
        big == IF s.size[ra] < s.size[rb] THEN ra ELSE rb
        small == IF s.size[ra] < s.size[rb] THEN rb ELSE ra
    IN  IF ra = rb THEN s
        ELSE [parent |-> [s.parent EXCEPT ![small] = big],
              size |-> [s.size EXCEPT ![big] = s.size[big] + s.size[small]]]

union_sets(s, a, b) ==
    LET ra == find_set(s.parent, a)
        rb == find_set(s.parent, b)
        big == IF s.size[ra] < s.size[rb] THEN rb ELSE ra
        small == IF s.size[ra] < s.size[rb] THEN ra ELSE rb
    IN  IF ra = rb THEN s
        ELSE [parent |-> [s.parent EXCEPT ![small] = big],
              size |-> [s.size EXCEPT ![big] = s.size[big] + s.size[small]]]

\* get_all_roots resolves every chain and stores the result in parent.
get_all_roots(s) ==
    [s EXCEPT !.parent = [c \in DOMAIN s.parent |-> find_set(s.parent, c)]]

masked_reset(s, mask) ==
    [parent |-> [c \in DOMAIN s.parent |-> IF mask[c] THEN c ELSE s.parent[c]],
     size |-> [c \in DOMAIN s.size |-> IF mask[c] THEN 1 ELSE s.size[c]]]

----------------------------------------------------------------------------
(* Helpers of GoBoard.step.                                                *)

\* clip that wraps a value out of range around instead of clamping it.
clip_wrap(x, lo, hi) == lo + ((x - lo) % (hi - lo + 1))

clip(x, lo, hi) == IF x < lo THEN lo ELSE IF x > hi THEN hi ELSE x

board_clip(n, x) == clip(x, 0, n - 1)

\* max_num_steps one too large.
max_num_steps_plus1(n) == (n * n) * 2 + 1

max_num_steps(n) == (n * n) * 2

Row(n, c) == c \div n
Col(n, c) == c % n

\* nearby_filter without the neighbour to the right.
nearby_filter_noright(n, x) ==
    [c \in Cells(n) |->
        \/ (Row(n, c) > 0 /\ x[c - n])
        \/ (Row(n, c) < n - 1 /\ x[c + n])
        \/ (Col(n, c) > 0 /\ x[c - 1])]

\* nearby_filter: x holds at one of the four orthogonal neighbours; the
\* padding outside the board is false.
nearby_filter(n, x) ==
    [c \in Cells(n) |->
        \/ (Row(n, c) > 0 /\ x[c - n])
        \/ (Row(n, c) < n - 1 /\ x[c + n])
        \/ (Col(n, c) > 0 /\ x[c - 1])
        \/ (Col(n, c) < n - 1 /\ x[c + 1])]

\* remove_stones that leaves a group without liberties on the board.
remove_stones_keep(n, b, roots, loc) == b

remove_stones(n, b, roots, loc) ==
    LET empty == [c \in Cells(n) |-> b[c] = 0]
        near == nearby_filter(n, empty)
        alive == \E c \in Cells(n) : roots[c] = roots[loc] /\ near[c]
    IN  IF alive THEN b
        ELSE [c \in Cells(n) |-> IF roots[c] = roots[loc] THEN 0 ELSE b[c]]

\* update_dsu that joins the two cells whatever their colours.
update_dsu_anycolour(s, b, a, loc) == union_sets(s, a, loc)

update_dsu(s, b, a, loc) == IF b[a] = b[loc] THEN union_sets(s, a, loc) ELSE s

\* kill_if_opp that tests the mover's colour instead of the opponent's.
kill_if_opp_own(n, b, roots, opp, loc) ==
    IF b[loc] = 0 - opp THEN remove_stones(n, b, roots, loc) ELSE b

kill_if_opp(n, b, roots, opp, loc) ==
    IF b[loc] = opp THEN remove_stones(n, b, roots, loc) ELSE b

\* count_eyes: the cells all of whose neighbours hold turn; the padding
\* outside the board is true.
count_eyes(n, b, t) ==
    Cardinality({c \in Cells(n) :
        /\ (Row(n, c) > 0 => b[c - n] = t)
        /\ (Row(n, c) < n - 1 => b[c + n] = t)
        /\ (Col(n, c) > 0 => b[c - 1] = t)
        /\ (Col(n, c) < n - 1 => b[c + 1] = t)})

CountOf(n, b, t) == Cardinality({c \in Cells(n) : b[c] = t})

\* final_score with the komi always subtracted.
final_score_minus_komi(n, self_turn, b, t) ==
    LET my_score == 2 * (CountOf(n, b, t) + count_eyes(n, b, t)) - KomiTimes2
        opp_score == 2 * (CountOf(n, b, 0 - t) + count_eyes(n, b, 0 - t))
    IN  my_score - opp_score

\* final_score, doubled: self_turn is the engine's turn field, t the argument.
final_score(n, self_turn, b, t) ==
    LET my_score == 2 * (CountOf(n, b, t) + count_eyes(n, b, t)) - self_turn * KomiTimes2
        opp_score == 2 * (CountOf(n, b, 0 - t) + count_eyes(n, b, 0 - t))
    IN  my_score - opp_score

----------------------------------------------------------------------------
(* GoBoard.step as a function of the state and the action.                 *)

\* pass_select that keeps the mutated board and dsu.
pass_select_keep(is_pass_move, old, new) == new

\* the pass restores the board and the dsu of the state given to step.
pass_select(is_pass_move, old, new) == IF is_pass_move THEN old ELSE new

\* pass_valid that leaves the flag as it is.
pass_valid_skip(is_pass_move, invalid) == invalid

\* a pass move is always a valid action.
pass_valid(is_pass_move, invalid) == IF is_pass_move THEN FALSE ELSE invalid

\* same_board that looks at the newest snapshot only.
same_board_newest(recent, b) == recent[Len(recent)] = b

same_board(recent, b) == \E k \in DOMAIN recent : recent[k] = b

repeat_position(recent, b, is_pass_move) == same_board(recent, b) /\ ~is_pass_move

\* two_passes that ignores the previous move.
two_passes_never(prev_pass, is_pass_move) == FALSE

two_passes(prev_pass, is_pass_move) == prev_pass /\ is_pass_move

\* is_terminated without the invalid move.
is_terminated_noinvalid(n, was_done, invalid, prev_pass, is_pass_move, new_count) ==
    \/ was_done
    \/ two_passes(prev_pass, is_pass_move)
    \/ new_count >= max_num_steps(n)

is_terminated(n, was_done, invalid, prev_pass, is_pass_move, new_count) ==
    \/ was_done
    \/ invalid
    \/ two_passes(prev_pass, is_pass_move)
    \/ new_count >= max_num_steps(n)

\* reward_of without the override for an invalid move.
reward_of_nooverride(new_done, invalid, score) ==
    IF new_done THEN (IF score > 0 THEN 1 ELSE 0 - 1) ELSE 0

reward_of(new_done, invalid, score) ==
    LET r0 == IF new_done THEN (IF score > 0 THEN 1 ELSE 0 - 1) ELSE 0
    IN  IF invalid THEN 0 - 1 ELSE r0

\* invalid_actions that flags the empty cells.
invalid_actions_empty(n, b) ==
    [a \in 0 .. (n * n) |-> IF a = n * n THEN FALSE ELSE b[a] = 0]

\* invalid_actions: the occupied cells, with the "pass" action appended.
invalid_actions(n, b) ==
    [a \in 0 .. (n * n) |-> IF a = n * n THEN FALSE ELSE b[a] # 0]

\* next_turn that flips the turn also when the game is over.
next_turn_always(new_done, t) == 0 - t

next_turn(new_done, t) == IF new_done THEN t ELSE 0 - t

\* push_board that evicts the newest snapshot instead of the oldest.
push_board_dropnewest(recent, b) == SubSeq(recent, 1, Len(recent) - 1) \o <<b>>

push_board(recent, b) == Tail(recent) \o <<b>>

step(self, a0) ==
    LET n == self.board_size
        is_pass_move == (a0 = n * n)
        a == clip(a0, 0, n * n - 1)
        i == a \div n
        j == a % n
        invalid0 == self.board[a] # 0
        b0 == [self.board EXCEPT ![a] = self.turn]
        l1 == board_clip(n, i - 1) * n + j
        l2 == board_clip(n, i + 1) * n + j
        l3 == i * n + board_clip(n, j - 1)
        l4 == i * n + board_clip(n, j + 1)
        d1 == update_dsu(self.dsu, b0, a, l1)
        d2 == update_dsu(d1, b0, a, l2)
        d3 == update_dsu(d2, b0, a, l3)
        d4 == update_dsu(d3, b0, a, l4)
        d5 == get_all_roots(d4)
        roots == d5.parent
        opp == 0 - b0[a]
        b1 == kill_if_opp(n, b0, roots, opp, l1)
        b2 == kill_if_opp(n, b1, roots, opp, l2)
        b3 == kill_if_opp(n, b2, roots, opp, l3)
        b4 == kill_if_opp(n, b3, roots, opp, l4)
        b5 == remove_stones(n, b4, roots, a)
        invalid1 == invalid0 \/ b5[a] = 0
        d6 == masked_reset(d5, [c \in Cells(n) |-> b5[c] = 0])
        invalid2 == invalid1 \/ repeat_position(self.recent_boards, b5, is_pass_move)
        new_board == pass_select(is_pass_move, self.board, b5)
        new_dsu == pass_select(is_pass_move, self.dsu, d6)
        invalid == pass_valid(is_pass_move, invalid2)
        new_count == self.count + 1
        new_done == is_terminated(n, self.done, invalid, self.prev_pass_move,
                                  is_pass_move, new_count)
        score == final_score(n, self.turn, new_board, self.turn)
    IN  [board_size |-> n,
         board |-> new_board,
         recent_boards |-> push_board(self.recent_boards, new_board),
         prev_pass_move |-> is_pass_move,
         turn |-> next_turn(new_done, self.turn),
         dsu |-> new_dsu,
         done |-> new_done,
         count |-> new_count,
         reward |-> reward_of(new_done, invalid, score),
         is_invalid_action |-> invalid,
         game_score |-> score]

----------------------------------------------------------------------------
(* The state machine.  Besides the fields of GoBoard the state records the *)
(* last call of step: its action, the reward it returned, its final        *)
(* is_invalid_action and its game_score, and the number of calls made on   *)
(* the game since it ended.                                                *)

Self == [board_size |-> board_size, board |-> board, recent_boards |-> recent_boards,
         prev_pass_move |-> prev_pass_move, turn |-> turn, dsu |-> dsu,
         done |-> done, count |-> count]

\* the last call of step was made on a game that was over.
done_prev == after_done > 0

EmptyBoard(n) == [c \in Cells(n) |-> EMPTY]

\* GoBoard.__init__ / reset; no step has been made yet (count = 0).
Init ==
    /\ board_size \in BoardSizes
    /\ board = EmptyBoard(board_size)
    /\ recent_boards = [k \in 1 .. K |-> EmptyBoard(board_size)]
    /\ prev_pass_move = FALSE
    /\ turn = BLACK
    /\ dsu = DSUInit(board_size * board_size)
    /\ done = FALSE
    /\ count = 0
    /\ action = PASS(board_size)
    /\ after_done = 0
    /\ reward = 0
    /\ is_invalid_action = FALSE
    /\ game_score = 0
    /\ any_invalid = FALSE
    /\ merges = {}
    /\ last_union = <<>>

Step ==
    /\ count * NumCells(board_size) < MaxWork
    /\ after_done < MaxAfterDone
    /\ \E a \in Actions(board_size) :
      \E r \in {step(Self, a)} :
            /\ board_size' = r.board_size
            /\ board' = r.board
            /\ recent_boards' = r.recent_boards
            /\ prev_pass_move' = r.prev_pass_move
            /\ turn' = r.turn
            /\ dsu' = r.dsu
            /\ done' = r.done
            /\ count' = r.count
            /\ action' = a
            /\ after_done' = IF done THEN after_done + 1 ELSE 0
            /\ reward' = r.reward
            /\ is_invalid_action' = r.is_invalid_action
            /\ game_score' = r.game_score
            /\ any_invalid' = (any_invalid \/ r.is_invalid_action)
    /\ UNCHANGED <<merges, last_union>>

Next == Step

Spec == Init /\ [][Next]_vars

----------------------------------------------------------------------------
(* The group tracker on its own: a tracker of any size up to MaxDSUSize,   *)
(* driven by union_sets and get_all_roots calls. merges is the set of      *)
(* pairs given to union_sets so far, last_union the pair of the last call  *)
(* (<<>> after get_all_roots). The board fields stay as reset leaves them. *)

DSUSizes == 1 .. MaxDSUSize

TrackerInit ==
    /\ \E m \in DSUSizes : dsu = DSUInit(m)
    /\ merges = {}
    /\ last_union = <<>>
    /\ board_size = 2
    /\ board = EmptyBoard(board_size)
    /\ recent_boards = [k \in 1 .. K |-> EmptyBoard(board_size)]
    /\ prev_pass_move = FALSE
    /\ turn = BLACK
    /\ done = FALSE
    /\ count = 0
    /\ action = PASS(board_size)
    /\ after_done = 0
    /\ reward = 0
    /\ is_invalid_action = FALSE
    /\ game_score = 0
    /\ any_invalid = FALSE

BoardFields == <<board_size, board, recent_boards, prev_pass_move, turn, done,
                 count, action, after_done, reward, is_invalid_action,
                 game_score, any_invalid>>

TrackerUnion ==
    \E a \in DOMAIN dsu.parent, b \in DOMAIN dsu.parent :
        /\ Cardinality(merges \cup {<<a, b>>}) <= MaxMerges
        /\ dsu' = union_sets(dsu, a, b)
        /\ merges' = merges \cup {<<a, b>>}
        /\ last_union' = <<a, b>>
        /\ UNCHANGED BoardFields

TrackerGetAllRoots ==
    /\ dsu' = get_all_roots(dsu)
    /\ last_union' = <<>>
    /\ UNCHANGED merges
    /\ UNCHANGED BoardFields

TrackerNext == TrackerUnion \/ TrackerGetAllRoots

TrackerSpec == TrackerInit /\ [][TrackerNext]_vars

----------------------------------------------------------------------------
(* The rules of Go stated on the board alone, without the DSU: groups by   *)
(* flood fill, liberties by adjacency.  The claims compare step with them. *)

Neighbours(n, c) ==
    (IF Row(n, c) > 0 THEN {c - n} ELSE {})
        \cup (IF Row(n, c) < n - 1 THEN {c + n} ELSE {})
        \cup (IF Col(n, c) > 0 THEN {c - 1} ELSE {})
        \cup (IF Col(n, c) < n - 1 THEN {c + 1} ELSE {})

RECURSIVE Grow(_, _, _, _)
Grow(n, b, colour, g) ==
    LET g2 == g \cup {d \in UNION {Neighbours(n, e) : e \in g} : b[d] = colour}
    IN  IF g2 = g THEN g ELSE Grow(n, b, colour, g2)

\* the maximal orthogonally connected set of stones of c's colour around c.
Group(n, b, c) == Grow(n, b, b[c], {c})

Liberties(n, b, g) == {d \in UNION {Neighbours(n, e) : e \in g} : b[d] = 0}

Dead(n, b, c) == b[c] # 0 /\ Liberties(n, b, Group(n, b, c)) = {}

Placed(b, a, t) == [b EXCEPT ![a] = t]

\* the opponent stones captured by a stone of colour t placed on a: those
\* of the dead opponent groups that touch a.
Captured(n, b, a, t) ==
    LET b0 == Placed(b, a, t)
    IN  {c \in Cells(n) :
            /\ b0[c] = 0 - t
            /\ Dead(n, b0, c)
            /\ Group(n, b0, c) \cap Neighbours(n, a) # {}}

AfterCapture(n, b, a, t) ==
    LET b0 == Placed(b, a, t)
        cap == Captured(n, b, a, t)
    IN  [c \in Cells(n) |-> IF c \in cap THEN 0 ELSE b0[c]]

SelfCapture(n, b, a, t) == Dead(n, AfterCapture(n, b, a, t), a)

\* the board a move on the empty cell a produces: placement, capture, and
\* the removal of the mover's own group when it is left without liberty.
Produced(n, b, a, t) ==
    LET b1 == AfterCapture(n, b, a, t)
        own == Group(n, b1, a)
    IN  IF Dead(n, b1, a)
        THEN [c \in Cells(n) |-> IF c \in own THEN 0 ELSE b1[c]]
        ELSE b1

\* the board before the last step (the window keeps it when K >= 2).
PrevBoard == recent_boards[K - 1]

\* the last call of step was a non-pass move onto an empty cell, made in a
\* game that was not over.
LastWasMove ==
    /\ count > 0
    /\ ~done_prev
    /\ action \in Cells(board_size)
    /\ K >= 2
    /\ PrevBoard[action] = 0

\* the colour that made the last step, when that step was LastWasMove.
LastMover == IF done THEN turn ELSE 0 - turn

----------------------------------------------------------------------------
(* The claims.  A claim about what one call of step does is a property of  *)
(* every transition: the unprimed variables are the state given to step,   *)
(* action' is the action given to it, the other primed variables the state *)
(* and the reward it returns.                                              *)

\* the call is a non-pass move onto an empty cell of a game that is not over.
MoveOnEmpty ==
    /\ ~done
    /\ action' \in Cells(board_size)
    /\ board[action'] = 0

(* C1 - capture correctness: from a state with done = false, a move on an  *)
(* empty cell clears every opponent group that has no liberty on the board *)
(* with the new stone placed, and leaves every opponent stone of a group   *)
(* with a liberty where it is.                                             *)
C1_CaptureCorrect ==
    [][MoveOnEmpty =>
        LET n == board_size
            b0 == Placed(board, action', turn)
        IN  \A c \in Cells(n) :
                b0[c] = 0 - turn =>
                    board'[c] = IF Dead(n, b0, c) THEN 0 ELSE 0 - turn]_vars

\* the last move captured a group while another opponent stone stayed.
C1_Witness ==
    /\ LastWasMove
    /\ ~is_invalid_action
    /\ \E c \in Cells(board_size) : PrevBoard[c] = 0 - LastMover /\ board[c] = 0
    /\ \E c \in Cells(board_size) : PrevBoard[c] = 0 - LastMover /\ board[c] = 0 - LastMover

(* C2 - self-capture rejection: from a state with done = false, a move on  *)
(* an empty cell whose group has no liberty once the dead opponent groups  *)
(* touching it are removed is invalid: done = true and reward = -1.        *)
C2_SelfCaptureRejected ==
    [][(MoveOnEmpty /\ SelfCapture(board_size, board, action', turn)) =>
        (is_invalid_action' /\ done' /\ reward' = 0 - 1)]_vars

\* the last move was a self-capture next to opponent stones that stayed.
C2_Witness ==
    /\ LastWasMove
    /\ SelfCapture(board_size, PrevBoard, action, LastMover)
    /\ is_invalid_action /\ done /\ reward = 0 - 1
    /\ board[action] = 0

\* the board a move on the empty cell a produces is one of the snapshots.
Repeats(n, recent, b, a, t) == \E k \in DOMAIN recent : recent[k] = Produced(n, b, a, t)

\* in a state with done = false: the mover's stone stood on a before the
\* opponent's last move and that move captured it.
JustCaptured(a) ==
    /\ K >= 2
    /\ count > 0
    /\ action # PASS(board_size)
    /\ PrevBoard[a] = turn
    /\ board[a] = 0

CapturesNothing(a) == Captured(board_size, board, a, turn) = {}

\* the call is a non-pass move, in a game that is not over, whose produced
\* board is one of the snapshots of the window.
RepeatingMove ==
    /\ ~done
    /\ action' \in Cells(board_size)
    /\ (board[action'] # 0
            \/ Repeats(board_size, recent_boards, board, action', turn))

(* C3, as amended - repetition rejection: from a state with done = false a *)
(* non-pass move whose produced board equals one of the K snapshots is     *)
(* invalid (done = true, reward = -1); and replaying a stone into the      *)
(* point from which it was just captured as a one-stone group, when the    *)
(* stone captures nothing, ends the game.                                  *)
C3_RepetitionRejected ==
    [][/\ RepeatingMove => (is_invalid_action' /\ done' /\ reward' = 0 - 1)
       /\ (/\ ~done
           /\ action' \in Cells(board_size)
           /\ JustCaptured(action')
           /\ Group(board_size, PrevBoard, action') = {action'}
           /\ CapturesNothing(action')) => (done' /\ reward' = 0 - 1)]_vars

(* C3 as stated: the same, with the replay of any stone that was just      *)
(* captured, whatever the size of its group.                               *)
C3_Original ==
    [][/\ RepeatingMove => (is_invalid_action' /\ done' /\ reward' = 0 - 1)
       /\ (/\ ~done
           /\ action' \in Cells(board_size)
           /\ JustCaptured(action')
           /\ CapturesNothing(action')) => done']_vars

\* the last move, on an empty cell, was no self-capture (its stone is on
\* the board) and was rejected: the board it produced repeats a snapshot
\* older than the position it was played in.
C3_Witness ==
    /\ LastWasMove
    /\ is_invalid_action /\ done /\ reward = 0 - 1
    /\ board[action] # 0
    /\ ~SelfCapture(board_size, PrevBoard, action, LastMover)

\* the last move replayed a stone that had just been captured alone,
\* captured nothing and ended the game.
C3_WitnessReplay ==
    /\ LastWasMove
    /\ K >= 3
    /\ recent_boards[K - 2][action] = LastMover
    /\ Group(board_size, recent_boards[K - 2], action) = {action}
    /\ Captured(board_size, PrevBoard, action, LastMover) = {}
    /\ done /\ reward = 0 - 1

(* C4 - captures are resolved before the self-capture test and all at      *)
(* once: from a state with done = false a move on an empty cell removes    *)
(* every dead opponent group that touches the placed stone, and when it    *)
(* removes one the placed stone stays on the board.                        *)
C4_CaptureBeforeSelfCapture ==
    [][MoveOnEmpty =>
        LET cap == Captured(board_size, board, action', turn)
        IN  /\ \A c \in cap : board'[c] = 0
            /\ cap # {} => board'[action'] = turn]_vars

\* the last move removed two distinct opponent groups and its stone stayed.
C4_Witness ==
    /\ LastWasMove
    /\ board[action] = LastMover
    /\ \E c, d \in Captured(board_size, PrevBoard, action, LastMover) :
        /\ d \notin Group(board_size, Placed(PrevBoard, action, LastMover), c)
        /\ board[c] = 0 /\ board[d] = 0

(* C5 - a pass is always legal: in every reachable state step(PASS) does   *)
(* not set invalid, and from a state with done = false, prevPassMove =     *)
(* false and count + 1 < 2*N^2 it returns done = false and reward = 0.     *)
C5_PassAlwaysLegal ==
    [][action' = PASS(board_size) =>
        /\ ~is_invalid_action'
        /\ (~done /\ ~prev_pass_move /\ count + 1 < 2 * board_size * board_size)
                => (~done' /\ reward' = 0)]_vars

\* the last step was a pass made with a stone on the cell the pass index
\* is clamped to (the board then equals the newest snapshot); the game
\* goes on.
C5_Witness ==
    /\ count > 0
    /\ action = PASS(board_size)
    /\ board[board_size * board_size - 1] # 0
    /\ ~is_invalid_action /\ ~done /\ reward = 0

(* C6 - a pass changes no stone and no group data: in every reachable      *)
(* state step(PASS) returns the board and the tracker's parent and size    *)
(* arrays unchanged.                                                       *)
C6_PassFrame ==
    [][action' = PASS(board_size) =>
        /\ board' = board
        /\ dsu'.parent = dsu.parent
        /\ dsu'.size = dsu.size]_vars

\* the last step was a pass on a board with a group of several stones and
\* an empty cell where the pass index is clamped to.
C6_Witness ==
    /\ count > 0
    /\ action = PASS(board_size)
    /\ board = PrevBoard
    /\ board[board_size * board_size - 1] = 0
    /\ \E c \in Cells(board_size) : dsu.parent[c] # c

\* what makes a non-pass move invalid, on the board alone.
RuleInvalid(a) ==
    /\ a # PASS(board_size)
    /\ \/ board[a] # 0
       \/ SelfCapture(board_size, board, a, turn)
       \/ Repeats(board_size, recent_boards, board, a, turn)

(* C7 - termination condition: in every reachable state and for every      *)
(* action in [0, N^2], the new done flag is true exactly when the state    *)
(* was done, or the move is invalid (occupied cell, self-capture, repeated *)
(* position), or the action and the previous move are both passes, or      *)
(* count + 1 >= 2*N^2.                                                     *)
C7_Termination ==
    [][action' \in 0 .. PASS(board_size) =>
        (done' <=>
            \/ done
            \/ (prev_pass_move /\ action' = PASS(board_size))
            \/ count + 1 >= 2 * board_size * board_size
            \/ RuleInvalid(action'))]_vars

\* the last step was the second of two passes and ended a game that was
\* below the move limit.
C7_Witness ==
    /\ action = PASS(board_size)
    /\ done /\ ~done_prev /\ ~is_invalid_action
    /\ count > 0
    /\ count < 2 * board_size * board_size

(* C8 - every game ends within the move limit: no reachable state has      *)
(* count >= 2*N^2 and done = false.                                        *)
C8_MoveLimit == count >= 2 * board_size * board_size => done

\* the last step was a legal move on a cell that reached the move limit in
\* a game that was not over.
C8_Witness ==
    /\ LastWasMove
    /\ ~is_invalid_action
    /\ count = 2 * board_size * board_size
    /\ done

\* the area score of board b as step computes it for the player who moves.
MoverScore(b) == final_score(board_size, turn, b, turn)

(* C9 - reward: in every reachable state and for every action in [0, N^2]  *)
(* the reward is -1, 0 or +1; it is 0 exactly when the new state is not    *)
(* done; when the new state is done and the move is not invalid it is +1   *)
(* if the mover's area score of the post-move board is > 0 and -1          *)
(* otherwise; when the move is invalid it is -1.                           *)
C9_Reward ==
    [][action' \in 0 .. PASS(board_size) =>
        /\ reward' \in {0 - 1, 0, 1}
        /\ reward' = 0 <=> ~done'
        /\ (done' /\ ~is_invalid_action') =>
                reward' = IF MoverScore(board') > 0 THEN 1 ELSE 0 - 1
        /\ is_invalid_action' => reward' = 0 - 1]_vars

\* the last step ended a game with a legal action and returned +1.
C9_Witness ==
    /\ count > 0
    /\ done /\ ~done_prev /\ ~is_invalid_action
    /\ reward = 1

\* stones(c) + eyes(c) - (stones(-c) + eyes(-c)), doubled.
AreaDiff2(b, c) ==
    2 * (CountOf(board_size, b, c) + count_eyes(board_size, b, c))
        - 2 * (CountOf(board_size, b, 0 - c) + count_eyes(board_size, b, 0 - c))

(* C10, as amended - scoring: the score step computes from the perspective *)
(* c of the player who moves is (stones(c) + eyes(c)) - (stones(-c) +      *)
(* eyes(-c)) - c * komi: the komi is subtracted when c is BLACK and added  *)
(* when c is WHITE, so it always favours WHITE.                            *)
C10_KomiFavoursWhite ==
    [][action' \in 0 .. PASS(board_size) =>
        game_score' = AreaDiff2(board', turn)
            - (IF turn = BLACK THEN KomiTimes2 ELSE 0 - KomiTimes2)]_vars

(* C10 as stated: for both perspective colours the score is (stones(c) +   *)
(* eyes(c)) - (stones(-c) + eyes(-c)) - komi.                              *)
C10_Original ==
    [][action' \in 0 .. PASS(board_size) =>
        game_score' = AreaDiff2(board', turn) - KomiTimes2]_vars

\* WHITE made the last step, a legal move, with stones of both colours on
\* the board.
C10_Witness ==
    /\ LastWasMove
    /\ ~done /\ turn = BLACK
    /\ \E c, d \in Cells(board_size) : board[c] = BLACK /\ board[d] = WHITE

\* the eyes of colour c on board b by the rule: the EMPTY cells all of
\* whose on-board neighbours hold c.
RuleEyes(n, b, c) ==
    {e \in Cells(n) : b[e] = EMPTY /\ \A d \in Neighbours(n, e) : b[d] = c}

(* C11 - eye counting: for the board of every game in progress (a board    *)
(* reached by legal moves, which step has just scored) and each colour c,  *)
(* eyes(c) is the number of EMPTY cells all of whose on-board neighbours   *)
(* hold c; a cell that holds a stone is never counted.                     *)
C11_EyesAreEmptyCells ==
    ~done =>
        \A c \in {BLACK, WHITE} :
            count_eyes(board_size, board, c)
                = Cardinality(RuleEyes(board_size, board, c))

(* C12 - legality mask: in every reachable state invalid_actions flags a   *)
(* non-pass action exactly when its cell is not EMPTY and never flags      *)
(* PASS; and a flagged action given to step in a state with done = false   *)
(* is invalid: done = true and reward = -1.                                *)
C12_LegalityMask ==
    [][LET n == board_size
           mask == invalid_actions(n, board)
       IN  /\ DOMAIN mask = 0 .. PASS(n)
           /\ ~mask[PASS(n)]
           /\ \A a \in Cells(n) : mask[a] <=> board[a] # EMPTY
           /\ (~done /\ action' \in 0 .. PASS(n) /\ mask[action'])
                => (is_invalid_action' /\ done' /\ reward' = 0 - 1)]_vars

\* the last step, in a game that was not over, played an action the mask
\* flagged (a cell that held a stone) and was rejected.
C12_Witness ==
    /\ count > 0
    /\ ~done_prev
    /\ action \in Cells(board_size)
    /\ K >= 2
    /\ invalid_actions(board_size, PrevBoard)[action]
    /\ is_invalid_action /\ done /\ reward = 0 - 1

(* C14 - history window: every call of step, pass or not and valid or not, *)
(* drops the oldest snapshot, keeps the other K-1 in order and appends the *)
(* new board; the window always holds K boards and its newest snapshot is  *)
(* the current board, also right after reset.                              *)
C14_HistoryWindow ==
    [][/\ Len(recent_boards) = K
       /\ recent_boards[K] = board
       /\ Len(recent_boards') = K
       /\ \A k \in 1 .. (K - 1) : recent_boards'[k] = recent_boards[k + 1]
       /\ recent_boards'[K] = board']_vars

\* the window has been turned over completely, it holds boards that
\* differ, and the last step was an invalid move.
C14_Witness ==
    /\ count > K
    /\ is_invalid_action
    /\ recent_boards[K] = board
    /\ \E k \in 1 .. (K - 1) : recent_boards[k] # recent_boards[k + 1]
    /\ \A k \in 1 .. K : recent_boards[k] # EmptyBoard(board_size)

\* the colour to move after c moves of a game in progress.
TurnAt(c) == IF c % 2 = 0 THEN BLACK ELSE WHITE

(* C15 - turn and done over a run: each call of step flips turn exactly    *)
(* when the resulting state is not done; in a state with done = false turn *)
(* is BLACK when count is even and WHITE when it is odd; once done is true *)
(* it stays true and turn does not change under any later call.            *)
C15_TurnAndDone ==
    [][/\ turn' = (IF done' THEN turn ELSE 0 - turn)
       /\ ~done => turn = TurnAt(count)
       /\ ~done' => turn' = TurnAt(count')
       /\ done => (done' /\ turn' = turn)]_vars

\* the last call of step was made on a game that was over, with an action
\* that is a legal move on the board, and WHITE is still to move.
C15_Witness ==
    /\ done_prev /\ done
    /\ ~is_invalid_action
    /\ action \in Cells(board_size)
    /\ turn = WHITE

\* the roots the tracker reports once every chain is resolved.
ResolvedRoots == get_all_roots(dsu).parent

(* C16 - tracker agrees with the board: in every state reached from reset  *)
(* by steps none of which was invalid, after resolving roots two occupied  *)
(* cells have the same root iff they hold the same colour and are joined   *)
(* by a path of adjacent stones of that colour, size[root] is the number   *)
(* of stones of the group, and every EMPTY cell is a singleton.            *)
C16_TrackerAgrees ==
    ~any_invalid =>
        LET n == board_size
            r == ResolvedRoots
        IN  \A x \in Cells(n) :
                IF board[x] = EMPTY
                THEN dsu.parent[x] = x /\ dsu.size[x] = 1
                ELSE LET g == Group(n, board, x)
                     IN  /\ \A y \in Cells(n) :
                               board[y] # EMPTY => (r[x] = r[y] <=> y \in g)
                         /\ dsu.size[r[x]] = Cardinality(g)

\* a game in progress where a capture has just emptied a cell, a group of
\* three stones and a stone of the other colour are on the board.
C16_Witness ==
    /\ ~any_invalid /\ ~done
    /\ action \in Cells(board_size)
    /\ \E c \in Cells(board_size) : JustCaptured(c)
    /\ \E x \in Cells(board_size) :
          /\ board[x] # EMPTY
          /\ Cardinality(Group(board_size, board, x)) >= 3
          /\ \E y \in Cells(board_size) : board[y] = 0 - board[x]

(* C17 - no dead stones stay on the board: in every state reached from     *)
(* reset by steps none of which was invalid (passes included), every       *)
(* maximal orthogonally connected group of same-colour stones has at least *)
(* one empty orthogonal neighbour.                                         *)
C17_NoDeadStones ==
    ~any_invalid =>
        \A x \in Cells(board_size) : ~Dead(board_size, board, x)

\* a game in progress whose last move captured a stone and left a group
\* with exactly one liberty on the board.
C17_Witness ==
    /\ ~any_invalid /\ ~done
    /\ action \in Cells(board_size)
    /\ \E c \in Cells(board_size) : JustCaptured(c)
    /\ \E x \in Cells(board_size) :
          /\ board[x] # EMPTY
          /\ Cardinality(Liberties(board_size, board,
                                   Group(board_size, board, x))) = 1

\* the indices connected to those of s by the pairs of links.
RECURSIVE GrowLinks(_, _)
GrowLinks(links, s) ==
    LET t == s \cup {p[2] : p \in {q \in links : q[1] \in s}}
               \cup {p[1] : p \in {q \in links : q[2] \in s}}
    IN  IF t = s THEN s ELSE GrowLinks(links, t)

Linked(links, i) == GrowLinks(links, {i})

\* what one union_sets(a, b) call may do to the tracker t, given the pairs
\* united before it: nothing inside one set; between two sets the root of
\* the smaller goes under the root of the larger and the sizes are added.
UnionRule(t, u, links, a, b) ==
    IF b \in Linked(links, a) THEN u = t
    ELSE \E ra \in Linked(links, a), rb \in Linked(links, b) :
            /\ t.parent[ra] = ra
            /\ t.parent[rb] = rb
            /\ \E big \in {ra, rb} :
                 LET small == IF big = ra THEN rb ELSE ra
                 IN  /\ t.size[small] <= t.size[big]
                     /\ u.parent = [t.parent EXCEPT ![small] = big]
                     /\ u.size = [t.size EXCEPT
                                    ![big] = t.size[big] + t.size[small]]

(* C18 - group tracker alone: from init(n) and after any sequence of       *)
(* union calls, find_all_roots gives two indices the same root iff the     *)
(* unions made so far connect them, leaves parent[i] equal to that root    *)
(* for every i, and size[root] is the number of indices of the root's set; *)
(* a union inside one set changes nothing, a union of two sets attaches    *)
(* the smaller root under the larger and adds the sizes.                   *)
C18_GroupTracker ==
    [][IF last_union' = <<>>
       THEN \A i \in DOMAIN dsu.parent :
               LET root == dsu'.parent[i]
               IN  /\ root \in Linked(merges, i)
                   /\ dsu'.parent[root] = root
                   /\ \A j \in DOMAIN dsu.parent :
                        dsu'.parent[j] = root <=> j \in Linked(merges, i)
                   /\ dsu'.size[root] = Cardinality(Linked(merges, i))
       ELSE UnionRule(dsu, dsu', merges, last_union'[1], last_union'[2])]_vars

\* get_all_roots has just resolved a tracker in which three unions had put
\* four indices in one set, the last of them joining two sets of two.
C18_Witness ==
    /\ last_union = <<>>
    /\ merges = {<<0, 1>>, <<2, 3>>, <<0, 2>>}
    /\ dsu.size[dsu.parent[3]] = 4
    /\ \A i \in DOMAIN dsu.parent : dsu.parent[i] = dsu.parent[0]

\* the state and reward that the last call of step left, as step returns
\* them.
Returned ==
    [board_size |-> board_size, board |-> board,
     recent_boards |-> recent_boards, prev_pass_move |-> prev_pass_move,
     turn |-> turn, dsu |-> dsu, done |-> done, count |-> count,
     reward |-> reward, is_invalid_action |-> is_invalid_action,
     game_score |-> game_score]

(* C19 - out-of-range actions are clamped, never rejected: in every        *)
(* reachable state, step with an action greater than N^2 returns exactly   *)
(* the state and reward of step with action N^2 - 1 (a stone on the last   *)
(* cell, not a pass), step with a negative action returns exactly those    *)
(* of step with action 0, and the result is a well-formed state.           *)
C19_OutOfRangeClamped ==
    [][LET n == board_size
       IN  /\ action' > PASS(n) => Returned' = step(Self, n * n - 1)
           /\ action' < 0 => Returned' = step(Self, 0)
           /\ action' \notin 0 .. PASS(n) =>
                 /\ board' \in [Cells(n) -> {EMPTY, BLACK, WHITE}]
                 /\ reward' \in {0 - 1, 0, 1}
                 /\ count' = count + 1]_vars

\* the last call had an action greater than N^2 and put a stone on the
\* empty last cell as a valid move of a game in progress.
C19_Witness ==
    /\ action > PASS(board_size)
    /\ ~done /\ ~is_invalid_action /\ ~prev_pass_move
    /\ K >= 2 /\ count > 1
    /\ PrevBoard[board_size * board_size - 1] = EMPTY
    /\ board[board_size * board_size - 1] = 0 - turn

====
